---- MODULE Spec2Model ----
(***************************************************************************)
(* Model of db-testkit: credential extraction from a parsed                *)
(* docker-compose document (pkg/docker), the file generators               *)
(* (pkg/generator), the runGenerate sequence that calls them, and the      *)
(* scripts wait-for-healthy.sh and verify-database-health.sh.  Each has    *)
(* its own specification.                                                  *)
(*                                                                         *)
(* Strings that come from the document are sequences of one-character      *)
(* strings, so that prefixes and colons can be examined.                   *)
(***************************************************************************)
EXTENDS Integers, Sequences, FiniteSets, TLC

VARIABLES
    dockerCompose,  \* the parsed document handed to ExtractCredentials
    xpc,            \* "parsed" before the call, "extracted" after it
    result,         \* what ExtractCredentials returned: [creds, err]
    dirs,           \* file system: the directories that exist (the root always does)
    ro,             \* file system: the directories entries cannot be added to
    files,          \* file system: regular files, path -> content
    now,            \* the clock, in seconds
    calls,          \* the generator calls made so far, each with its position
    dirs0,          \* the directories before the first call
    files0,         \* the files before the first call
    argv,           \* wait-for-healthy.sh: the arguments of the run
    tools,          \* the commands found on the PATH: timeout or gtimeout, which seq
    container,      \* the container as the runtime knows it: existence, health, readiness
    wpc,            \* the position of the script
    sh,             \* the variables of the script
    bg,             \* the background job: timeout running docker events
    fifo,           \* the lines written to the FIFO and not read yet
    exitCode,       \* <<>> while the script runs, <<n>> once it has exited with n
    seen,           \* what happened during the run, for the properties
    input,          \* runGenerate: the file docker-compose.yml
    ppc,            \* the position of runGenerate
    ptrace,         \* the operations runGenerate has called, in order
    pout,           \* the errors they returned, "" for none
    perr,           \* what runGenerate returned: <<>> for nil, or <<operation, error>>
    vpc,            \* verify-database-health.sh: the position of the script
    overall_status, \* the variable of main
    vout,           \* the return statuses of the checks run so far, in order
    vexit           \* <<>> while the script runs, <<n>> once it has exited with n

xvars == <<dockerCompose, xpc, result>>

gvars == <<dirs, ro, files, now, calls, dirs0, files0>>

wvars == <<argv, tools, container, wpc, sh, bg, fifo, exitCode, seen>>

\* the variables of the programs other than pkg/docker and pkg/generator
pvars == <<input, ppc, ptrace, pout, perr>>

vvars == <<vpc, overall_status, vout, vexit>>

ovars == <<wvars, pvars, vvars>>

vars == <<dockerCompose, xpc, result, dirs, ro, files, now, calls, dirs0, files0,
          argv, tools, container, wpc, sh, bg, fifo, exitCode, seen,
          input, ppc, ptrace, pout, perr,
          vpc, overall_status, vout, vexit>>

\* the script is not run
NoScript ==
    /\ argv = <<>>
    /\ tools = <<>>
    /\ container = <<>>
    /\ wpc = "idle"
    /\ sh = <<>>
    /\ bg = <<>>
    /\ fifo = <<>>
    /\ exitCode = <<>>
    /\ seen = <<>>

\* runGenerate is not run
NoPipeline ==
    /\ input = <<>>
    /\ ppc = "idle"
    /\ ptrace = <<>>
    /\ pout = <<>>
    /\ perr = <<>>

\* verify-database-health.sh is not run
NoVerify ==
    /\ vpc = "idle"
    /\ overall_status = 0
    /\ vout = <<>>
    /\ vexit = <<>>

\* the programs other than pkg/docker and pkg/generator are not run
Idle == NoScript /\ NoPipeline /\ NoVerify

----------------------------------------------------------------------------
(* Bounds of the input space *)

\* longest enumerated port-mapping entry, in characters
MaxPortLen == 3

\* longest port-mapping sequence of a service
MaxPorts == 2

\* generator calls made in one run
MaxCalls == 2

\* seconds the clock may advance during one run
MaxNow == 1

----------------------------------------------------------------------------
(* Strings *)

RECURSIVE StrsOfLen(_, _)
StrsOfLen(C, n) ==
    IF n = 0 THEN {<<>>}
    ELSE {Append(s, c) : s \in StrsOfLen(C, n - 1), c \in C}

StrsUpTo(C, n) == UNION {StrsOfLen(C, k) : k \in 0..n}

RECURSIVE SeqsOfLen(_, _)
SeqsOfLen(S, n) ==
    IF n = 0 THEN {<<>>}
    ELSE {<<x>> \o s : x \in S, s \in SeqsOfLen(S, n - 1)}

SeqsUpTo(S, n) == UNION {SeqsOfLen(S, k) : k \in 0..n}

HasColon(s) == \E i \in 1..Len(s) : s[i] = ":"

\* index of the first colon of s (s has one)
FirstColon(s) == CHOOSE i \in 1..Len(s) :
                    /\ s[i] = ":"
                    /\ \A j \in 1..(i - 1) : s[j] # ":"

\* index of the last colon of s (s has one)
LastColon(s) == CHOOSE i \in 1..Len(s) :
                    /\ s[i] = ":"
                    /\ \A j \in (i + 1)..Len(s) : s[j] # ":"

----------------------------------------------------------------------------
(* Document model: DockerCompose, Service, TestDBCredentials *)

CustomerName == "db-test-customer"
InternalName == "db-test-internal"

\* names that differ from a required one only in case or spelling
DecoyNames == {"DB-TEST-CUSTOMER", "db-test-internl"}

\* the required name a decoy would be taken for by a fuzzy lookup
Fuzzy(name) ==
    CASE name = "DB-TEST-CUSTOMER" -> CustomerName
      [] name = "db-test-internl"  -> InternalName
      [] OTHER                     -> name

EnvKeys == {"POSTGRES_USER", "POSTGRES_PASSWORD", "POSTGRES_DB"}

EnvValues == {<<"a">>, <<"b", "c">>}

\* a map[string]string; the nil map and the empty map are both the empty function
Environments == UNION {[K -> EnvValues] : K \in SUBSET EnvKeys}

Localhost == <<"l", "o", "c", "a", "l", "h", "o", "s", "t">>
Default5555 == <<"5", "5", "5", "5">>
Default6666 == <<"6", "6", "6", "6">>

\* port-mapping entries named in the documentation
Entry5555to5432 == <<"5", "5", "5", "5", ":", "5", "4", "3", "2">>
Entry6666to5432 == <<"6", "6", "6", "6", ":", "5", "4", "3", "2">>
Entry5432 == <<"5", "4", "3", "2">>
Entry1c2c3 == <<"1", ":", "2", ":", "3">>
EntryColon5432 == <<":", "5", "4", "3", "2">>
EntryHostBinding ==
    <<"1", "2", "7", ".", "0", ".", "0", ".", "1", ":",
      "5", "5", "5", "5", ":", "5", "4", "3", "2">>

PortChars == {"1", ":"}

\* what the first entry of a port sequence may be
PortEntries ==
    StrsUpTo(PortChars, MaxPortLen)
        \cup {Entry5555to5432, Entry5432, Entry1c2c3, EntryColon5432,
              EntryHostBinding}

\* what the entries after the first may be
LaterEntries == {Entry6666to5432, Entry5432}

PortTails == SeqsUpTo(LaterEntries, MaxPorts - 1)

PortSeqs == {<<>>} \cup {<<e>> \o t : e \in PortEntries, t \in PortTails}

Service(env, ports) == [Environment |-> env, Ports |-> ports]

AllServices == {Service(e, p) : e \in Environments, p \in PortSeqs}

StandardCustomer ==
    Service([k \in EnvKeys |-> IF k = "POSTGRES_DB" THEN <<"b", "c">> ELSE <<"a">>],
            <<Entry5555to5432>>)

StandardInternal ==
    Service([k \in EnvKeys |-> IF k = "POSTGRES_USER" THEN <<"b", "c">> ELSE <<"a">>],
            <<Entry6666to5432>>)

BareService == Service(<<>>, <<>>)

FewServices == {StandardCustomer, StandardInternal, BareService}

\* an optional value: <<>> is none, <<x>> is x
Opt(S) == {<<>>} \cup {<<x>> : x \in S}

\* the document with customer service c, internal service i (optional both)
\* and the decoy services ds
MkDoc(c, i, ds) ==
    [Services |->
        [n \in (IF c = <<>> THEN {} ELSE {CustomerName})
                \cup (IF i = <<>> THEN {} ELSE {InternalName})
                \cup ds |->
            IF n = CustomerName THEN c[1]
            ELSE IF n = InternalName THEN i[1]
            ELSE StandardCustomer]]

\* The documents checked, all being the services enumerated: each required
\* service ranges over every service
\* while the other is one of a few, and every combination of missing
\* services and decoys over the few.
Docs(all) ==
    {MkDoc(<<c>>, <<i>>, {}) : c \in all, i \in FewServices}
        \cup {MkDoc(<<c>>, <<i>>, {}) : c \in FewServices, i \in all}
        \cup {MkDoc(c, i, ds) : c \in Opt(FewServices), i \in Opt(FewServices),
                                ds \in SUBSET DecoyNames}

CredFields ==
    {"CustomerHost", "CustomerPort", "CustomerUser", "CustomerPassword",
     "CustomerDB", "InternalHost", "InternalPort", "InternalUser",
     "InternalPassword", "InternalDB"}

----------------------------------------------------------------------------
(* pkg/docker/compose.go *)

\* Go's map index: the zero value "" for an absent key
EnvGet_copiedKey(env, key) ==
    IF "POSTGRES_USER" \in DOMAIN env THEN env["POSTGRES_USER"] ELSE <<>>

EnvGet_fallback(env, key) ==
    IF key \in DOMAIN env THEN env[key]
    ELSE <<"p", "o", "s", "t", "g", "r", "e", "s">>

EnvGet(env, key) == IF key \in DOMAIN env THEN env[key] ELSE <<>>

\* Go's two-value map index (service, ok): <<service>> when ok, <<>> when not
Lookup_fuzzy(dc, name) ==
    IF \E n \in DOMAIN dc.Services : Fuzzy(n) = name
    THEN <<dc.Services[CHOOSE n \in DOMAIN dc.Services : Fuzzy(n) = name]>>
    ELSE <<>>

Lookup(dc, name) ==
    IF name \in DOMAIN dc.Services THEN <<dc.Services[name]>> ELSE <<>>

extractHostPort_lastColon(ports, defaultPort) ==
    IF Len(ports) = 0 THEN defaultPort
    ELSE LET port == ports[1]
         IN  IF HasColon(port)
             THEN SubSeq(port, 1, LastColon(port) - 1)
             ELSE defaultPort

extractHostPort_anyEntry(ports, defaultPort) ==
    IF \E k \in 1..Len(ports) : HasColon(ports[k])
    THEN LET first == CHOOSE k \in 1..Len(ports) :
                         /\ HasColon(ports[k])
                         /\ \A j \in 1..(k - 1) : ~HasColon(ports[j])
         IN  SubSeq(ports[first], 1, FirstColon(ports[first]) - 1)
    ELSE defaultPort

extractHostPort_numeric(ports, defaultPort) ==
    IF Len(ports) = 0 THEN defaultPort
    ELSE LET port == ports[1]
         IN  IF HasColon(port)
             THEN LET host == SubSeq(port, 1, FirstColon(port) - 1)
                  IN  IF host = <<>> THEN defaultPort ELSE host
             ELSE defaultPort

extractHostPort(ports, defaultPort) ==
    IF Len(ports) = 0 THEN defaultPort
    ELSE LET port == ports[1]
         IN  IF HasColon(port)
             THEN SubSeq(port, 1, FirstColon(port) - 1)
             ELSE defaultPort

NotFound(name) == <<name, " service not found in docker-compose.yml">>

\* return nil, fmt.Errorf("... service not found ...")
MissingService_partial(name) ==
    [creds |-> <<[f \in CredFields |-> <<>>]>>, err |-> NotFound(name)]

MissingService(name) == [creds |-> <<>>, err |-> NotFound(name)]

ExtractCredentials(dc) ==
    IF Lookup(dc, CustomerName) = <<>> THEN MissingService(CustomerName)
    ELSE IF Lookup(dc, InternalName) = <<>> THEN MissingService(InternalName)
    ELSE LET customerService == Lookup(dc, CustomerName)[1]
             internalService == Lookup(dc, InternalName)[1]
         IN  [creds |-> <<[
                 CustomerHost     |-> Localhost,
                 CustomerPort     |-> extractHostPort(customerService.Ports, Default5555),
                 CustomerUser     |-> EnvGet(customerService.Environment, "POSTGRES_USER"),
                 CustomerPassword |-> EnvGet(customerService.Environment, "POSTGRES_PASSWORD"),
                 CustomerDB       |-> EnvGet(customerService.Environment, "POSTGRES_DB"),
                 InternalHost     |-> Localhost,
                 InternalPort     |-> extractHostPort(internalService.Ports, Default6666),
                 InternalUser     |-> EnvGet(internalService.Environment, "POSTGRES_USER"),
                 InternalPassword |-> EnvGet(internalService.Environment, "POSTGRES_PASSWORD"),
                 InternalDB       |-> EnvGet(internalService.Environment, "POSTGRES_DB")]>>,
              err |-> <<>>]

NoResult == [creds |-> <<>>, err |-> <<>>]

\* the generators are not called while extraction is examined
NoGenerators ==
    /\ dirs = {}
    /\ ro = {}
    /\ files = <<>>
    /\ now = 0
    /\ calls = <<>>
    /\ dirs0 = {}
    /\ files0 = <<>>

InitExtract ==
    /\ dockerCompose \in Docs(AllServices)
    /\ xpc = "parsed"
    /\ result = NoResult
    /\ NoGenerators
    /\ Idle

CallExtractCredentials ==
    /\ xpc = "parsed"
    /\ result' = ExtractCredentials(dockerCompose)
    /\ xpc' = "extracted"
    /\ UNCHANGED dockerCompose
    /\ UNCHANGED gvars
    /\ UNCHANGED ovars

NextExtract == CallExtractCredentials

SpecExtract == InitExtract /\ [][NextExtract]_vars

----------------------------------------------------------------------------
(* Claims about ExtractCredentials and extractHostPort *)

Extracted == xpc = "extracted"

HasBoth ==
    /\ CustomerName \in DOMAIN dockerCompose.Services
    /\ InternalName \in DOMAIN dockerCompose.Services

Cust == dockerCompose.Services[CustomerName]
Intl == dockerCompose.Services[InternalName]

\* the credentials field fed by environment key k of the customer
\* (internal) service
CustField(k) ==
    CASE k = "POSTGRES_USER"     -> "CustomerUser"
      [] k = "POSTGRES_PASSWORD" -> "CustomerPassword"
      [] k = "POSTGRES_DB"       -> "CustomerDB"

IntlField(k) ==
    CASE k = "POSTGRES_USER"     -> "InternalUser"
      [] k = "POSTGRES_PASSWORD" -> "InternalPassword"
      [] k = "POSTGRES_DB"       -> "InternalDB"

\* C1: for every document holding both required services, whatever their
\* environment and ports, ExtractCredentials succeeds, both host fields are
\* "localhost", and user, password and database name are the POSTGRES_USER,
\* POSTGRES_PASSWORD and POSTGRES_DB values of the respective service.
C1_ExtractVerbatim ==
    (Extracted /\ HasBoth) =>
        /\ result.err = <<>>
        /\ Len(result.creds) = 1
        /\ result.creds[1].CustomerHost = Localhost
        /\ result.creds[1].InternalHost = Localhost
        /\ \A k \in DOMAIN Cust.Environment :
                result.creds[1][CustField(k)] = Cust.Environment[k]
        /\ \A k \in DOMAIN Intl.Environment :
                result.creds[1][IntlField(k)] = Intl.Environment[k]

C1_Witness ==
    /\ Extracted
    /\ dockerCompose = MkDoc(<<StandardCustomer>>, <<StandardInternal>>, {})
    /\ result.err = <<>>
    /\ result.creds[1].CustomerHost = Localhost
    /\ result.creds[1].CustomerUser = <<"a">>
    /\ result.creds[1].CustomerDB = <<"b", "c">>
    /\ result.creds[1].InternalUser = <<"b", "c">>
    /\ result.creds[1].InternalDB = <<"a">>

\* C2: when a required service is missing, ExtractCredentials fails with an
\* error naming exactly that service, db-test-customer first when both are
\* missing; a service named alike (other case, other spelling) does not
\* count as present.
C2_MissingServiceNamed ==
    Extracted =>
        /\ CustomerName \notin DOMAIN dockerCompose.Services =>
                /\ result.creds = <<>>
                /\ Len(result.err) = 2
                /\ result.err[1] = CustomerName
        /\ (/\ CustomerName \in DOMAIN dockerCompose.Services
            /\ InternalName \notin DOMAIN dockerCompose.Services) =>
                /\ result.creds = <<>>
                /\ Len(result.err) = 2
                /\ result.err[1] = InternalName

C2_Witness ==
    /\ Extracted
    /\ DOMAIN dockerCompose.Services = DecoyNames
    /\ result.creds = <<>>
    /\ result.err[1] = CustomerName

\* what the documentation says the port field is, for a port sequence and a
\* default: the default for no entry or a first entry without colon, else
\* the colon-free text in front of the first entry's first colon
IsPortOf(p, ports, defaultPort) ==
    IF ports = <<>> THEN p = defaultPort
    ELSE IF \A i \in 1..Len(ports[1]) : ports[1][i] # ":" THEN p = defaultPort
    ELSE /\ Len(p) < Len(ports[1])
         /\ \A i \in 1..Len(p) : p[i] = ports[1][i] /\ p[i] # ":"
         /\ ports[1][Len(p) + 1] = ":"

\* C3: the port field is the default ("5555" customer, "6666" internal) for
\* an empty port sequence or a first entry without colon, and otherwise the
\* text of the first entry strictly before its first colon.
C3_PortExtraction ==
    /\ (Extracted /\ HasBoth) =>
            /\ IsPortOf(result.creds[1].CustomerPort, Cust.Ports, Default5555)
            /\ IsPortOf(result.creds[1].InternalPort, Intl.Ports, Default6666)
    /\ extractHostPort(<<Entry5555to5432>>, Default6666) = <<"5", "5", "5", "5">>
    /\ extractHostPort(<<>>, Default5555) = <<"5", "5", "5", "5">>
    /\ extractHostPort(<<>>, Default6666) = <<"6", "6", "6", "6">>
    /\ extractHostPort(<<Entry5432>>, Default6666) = <<"6", "6", "6", "6">>
    /\ extractHostPort(<<Entry1c2c3>>, Default5555) = <<"1">>

C3_Witness ==
    /\ Extracted
    /\ HasBoth
    /\ Cust.Ports = <<Entry1c2c3>>
    /\ result.creds[1].CustomerPort = <<"1">>
    /\ Intl.Ports = <<>>
    /\ result.creds[1].InternalPort = Default6666

\* C4: only the first port-mapping entry is consulted: every port sequence
\* with the same first entry gives the same port field, and a first entry
\* without colon gives the default whatever follows it.
C4_FirstEntryOnly ==
    (Extracted /\ HasBoth) =>
        /\ Cust.Ports # <<>> =>
            /\ \A t \in PortTails :
                  extractHostPort(<<Cust.Ports[1]>> \o t, Default5555)
                      = result.creds[1].CustomerPort
            /\ ~HasColon(Cust.Ports[1]) =>
                  result.creds[1].CustomerPort = Default5555
        /\ Intl.Ports # <<>> =>
            /\ \A t \in PortTails :
                  extractHostPort(<<Intl.Ports[1]>> \o t, Default6666)
                      = result.creds[1].InternalPort
            /\ ~HasColon(Intl.Ports[1]) =>
                  result.creds[1].InternalPort = Default6666

C4_Witness ==
    /\ Extracted
    /\ HasBoth
    /\ Cust.Ports = <<Entry5432, Entry6666to5432>>
    /\ result.creds[1].CustomerPort = Default5555

\* document dc with environment key k of service name set to v
WithEnv(dc, name, k, v) ==
    [Services |->
        [n \in DOMAIN dc.Services |->
            IF n = name
            THEN [dc.Services[n] EXCEPT !.Environment =
                    [j \in DOMAIN dc.Services[n].Environment \cup {k} |->
                        IF j = k THEN v ELSE dc.Services[n].Environment[j]]]
            ELSE dc.Services[n]]]

\* C5: a required service lacking a user, password or database-name key (or
\* any environment) does not fail the extraction: the field is the empty
\* string, and every other field is what it is with the key present.
C5_MissingKeyEmpty ==
    (Extracted /\ HasBoth) =>
        /\ result.err = <<>>
        /\ Len(result.creds) = 1
        /\ \A k \in EnvKeys \ DOMAIN Cust.Environment :
            /\ result.creds[1][CustField(k)] = <<>>
            /\ \A v \in EnvValues :
                ExtractCredentials(WithEnv(dockerCompose, CustomerName, k, v)).creds[1]
                    = [result.creds[1] EXCEPT ![CustField(k)] = v]
        /\ \A k \in EnvKeys \ DOMAIN Intl.Environment :
            /\ result.creds[1][IntlField(k)] = <<>>
            /\ \A v \in EnvValues :
                ExtractCredentials(WithEnv(dockerCompose, InternalName, k, v)).creds[1]
                    = [result.creds[1] EXCEPT ![IntlField(k)] = v]

C5_Witness ==
    /\ Extracted
    /\ HasBoth
    /\ DOMAIN Cust.Environment = {"POSTGRES_USER", "POSTGRES_DB"}
    /\ Intl = BareService
    /\ result.err = <<>>
    /\ result.creds[1].CustomerPassword = <<>>
    /\ result.creds[1].CustomerUser = Cust.Environment["POSTGRES_USER"]
    /\ result.creds[1].InternalUser = <<>>
    /\ result.creds[1].InternalPort = Default6666

\* C6: every call returns either a record with all ten fields and no error,
\* or no record and an error; a record is never returned for a document
\* lacking a required service.
C6_NoPartialSuccess ==
    Extracted =>
        /\ \/ /\ Len(result.creds) = 1
              /\ DOMAIN result.creds[1] = CredFields
              /\ result.err = <<>>
           \/ /\ result.creds = <<>>
              /\ result.err # <<>>
        /\ result.creds # <<>> => HasBoth

C6_Witness ==
    /\ Extracted
    /\ CustomerName \in DOMAIN dockerCompose.Services
    /\ InternalName \notin DOMAIN dockerCompose.Services
    /\ result.creds = <<>>
    /\ result.err # <<>>

----------------------------------------------------------------------------
(* File system: os.MkdirAll, os.Create, filepath.Dir *)

\* A path is the sequence of its names; <<>> is the working directory.
PathMid == <<"testdata", "Taskfile.generated.yml">>
PathDeep == <<"testdata", "connection-profiles", "connection-profiles-test.yaml">>

\* the output paths the generators are called with
Paths == {PathMid, PathDeep}

\* filepath.Dir
Dir(path) == SubSeq(path, 1, Len(path) - 1)

\* d and the directories above it, the working directory excepted
Prefixes(d) == {SubSeq(d, 1, k) : k \in 1..Len(d)}

IsDir(ds, d) == d = <<>> \/ d \in ds

\* os.MkdirAll(d) succeeds: nothing on the way is a regular file, and every
\* directory to be made is made in a directory that takes new entries
MkdirAllOk(ds, fl, d) ==
    \A a \in Prefixes(d) :
        /\ a \notin DOMAIN fl
        /\ a \notin ds => Dir(a) \notin ro

\* the directories after a successful os.MkdirAll(d)
MkdirAll(ds, d) == ds \cup Prefixes(d)

\* os.Create(path) succeeds: the parent exists, path is no directory, and
\* the file exists already or the parent takes new entries
CanCreate(ds, fl, path) ==
    /\ IsDir(ds, Dir(path))
    /\ path \notin ds
    /\ path \in DOMAIN fl \/ Dir(path) \notin ro

\* O_TRUNC: the content of the file os.Create leaves, given the old content
CreateContent_keep(old) == old

CreateContent(old) == <<>>

\* writing out at offset 0 of a file holding old
WriteAt0(old, out) == out \o SubSeq(old, Len(out) + 1, Len(old))

\* the file at path, if any
FileAt(fl, path) == IF path \in DOMAIN fl THEN <<fl[path]>> ELSE <<>>

\* fl with the file at path holding content
PutFile(fl, path, content) ==
    [q \in DOMAIN fl \cup {path} |-> IF q = path THEN content ELSE fl[q]]

----------------------------------------------------------------------------
(* text/template: the two templates and their execution *)

\* a template node: literal text, or the action {{.arg}}
T(text) == [kind |-> "text", arg |-> text]
F(field) == [kind |-> "field", arg |-> field]

\* A template is the sequence of its lines, a line the sequence of its
\* nodes.  A run of lines without action is one element naming the run.
TaskfileTemplate == <<
    <<T("# THIS FILE IS AUTO-GENERATED from docker-compose.yml")>>,
    <<T("# DO NOT EDIT MANUALLY - Run 'go generate ./...' or your dev tool to regenerate")>>,
    <<T("# Generated on: "), F("Timestamp")>>,
    <<T("# Source: docker-compose.yml ... version: '3' ... vars:")>>,
    <<T("  TEST_CUSTOMER_HOST: \""), F("CustomerHost"), T("\"")>>,
    <<T("  TEST_CUSTOMER_PORT: \""), F("CustomerPort"), T("\"")>>,
    <<T("  TEST_CUSTOMER_USER: \""), F("CustomerUser"), T("\"")>>,
    <<T("  TEST_CUSTOMER_PASSWORD: \""), F("CustomerPassword"), T("\"")>>,
    <<T("  TEST_CUSTOMER_DB: \""), F("CustomerDB"), T("\"")>>,
    <<>>,
    <<T("  TEST_INTERNAL_HOST: \""), F("InternalHost"), T("\"")>>,
    <<T("  TEST_INTERNAL_PORT: \""), F("InternalPort"), T("\"")>>,
    <<T("  TEST_INTERNAL_USER: \""), F("InternalUser"), T("\"")>>,
    <<T("  TEST_INTERNAL_PASSWORD: \""), F("InternalPassword"), T("\"")>>,
    <<T("  TEST_INTERNAL_DB: \""), F("InternalDB"), T("\"")>>,
    <<T("tasks: test:db:start:generated ... test:db:psql:generated: cmds:")>>,
    <<T("      - docker exec -it pg-test-customer psql -U "), F("CustomerUser"),
      T(" -d "), F("CustomerDB")>>,
    <<T("  test:db:psql:internal:generated: cmds:")>>,
    <<T("      - docker exec -it pg-test-internal psql -U "), F("InternalUser"),
      T(" -d "), F("InternalDB")>>,
    <<T("  seed:load:dev:generated ... seed:load:test:generated: cmds:")>>,
    <<T("        if cat \"$SEED_FILE\" | docker exec -i pg-test-customer psql -U "),
      F("CustomerUser"), T(" -d "), F("CustomerDB"),
      T(" 2>&1 | grep -v \"does not exist, skipping\"; then")>>,
    <<T("  seed:verify:test:generated: cmds:")>>,
    <<T("      - docker exec pg-test-customer psql -U "), F("CustomerUser"),
      T(" -d "), F("CustomerDB"), T(" -c \"SELECT ... FROM pg_stat_user_tables ...;\"")>>,
    <<T("  seed:reload:test:generated: cmds:")>>,
    <<T("      - docker exec pg-test-customer psql -U "), F("CustomerUser"),
      T(" -d "), F("CustomerDB"), T(" -c \"DROP SCHEMA IF EXISTS stage CASCADE;\"")>>,
    <<T("      - task: seed:load:test:generated ... seed:clean:test:generated: cmds:")>>,
    <<T("      - docker exec pg-test-customer psql -U "), F("CustomerUser"),
      T(" -d "), F("CustomerDB"), T(" -c \"DROP SCHEMA IF EXISTS stage CASCADE;\"")>>,
    <<T("      - echo ... seed:load:all:generated ... seed:clean:all:generated")>> >>

ProfilesTemplate == <<
    <<T("# Connection Profiles for Automated Testing")>>,
    <<T("# THIS FILE IS AUTO-GENERATED from docker-compose.yml")>>,
    <<T("# DO NOT EDIT MANUALLY - Run 'go generate ./...' or your dev tool to regenerate")>>,
    <<T("# Generated on: "), F("Timestamp")>>,
    <<T("# ---------------------------------------------------------------------------")>>,
    <<T("connection_profiles:")>>,
    <<T("  # Automated testing environment (references docker-compose.yml)")>>,
    <<T("  test:")>>,
    <<T("    type: \"postgresql\"")>>,
    <<T("    host: \""), F("CustomerHost"), T("\"")>>,
    <<T("    port: "), F("CustomerPort"),
      T("  # From docker-compose.yml db-test-customer port")>>,
    <<T("    user: \""), F("CustomerUser"), T("\""),
      T("  # From docker-compose.yml POSTGRES_USER")>>,
    <<T("    password: \""), F("CustomerPassword"), T("\""),
      T("  # From docker-compose.yml POSTGRES_PASSWORD")>>,
    <<T("    database: \""), F("CustomerDB"), T("\""),
      T("  # From docker-compose.yml POSTGRES_DB")>>,
    <<T("    sslmode: \"disable\"")>>,
    <<T("    target_schema: \"daana_dw\"")>> >>

Generators == {"GenerateTaskfile", "GenerateConnectionProfiles"}

\* the profile's port taken from the internal database
TemplateOf_internalPort(gen) ==
    IF gen = "GenerateTaskfile" THEN TaskfileTemplate
    ELSE [ProfilesTemplate EXCEPT ![11] =
            <<T("    port: "), F("InternalPort"),
              T("  # From docker-compose.yml db-test-customer port")>>]

\* a footer repeating the time of generation
TemplateOf_footer(gen) ==
    (IF gen = "GenerateTaskfile" THEN TaskfileTemplate ELSE ProfilesTemplate)
        \o << <<T("# end of file generated on "), F("Timestamp")>> >>

TemplateOf(gen) ==
    IF gen = "GenerateTaskfile" THEN TaskfileTemplate ELSE ProfilesTemplate

\* time.Now().Format("2006-01-02 15:04:05 MST"), to the second
Format(t) == <<"2006-01-02 15:04:05 MST + ", ToString(t), "s">>

\* struct{ *docker.TestDBCredentials; Timestamp string }: the fields an
\* action can read; those of a nil record cannot be
Data(creds, t) ==
    IF creds = <<>>
    THEN [f \in {"Timestamp"} |-> Format(t)]
    ELSE [f \in CredFields \cup {"Timestamp"} |->
            IF f = "Timestamp" THEN Format(t) ELSE creds[1][f]]

NodeOk(node, data) == node.kind = "text" \/ node.arg \in DOMAIN data

\* the text the first n nodes of a line write
RECURSIVE RenderNodes(_, _, _)
RenderNodes(line, n, data) ==
    IF n = 0 THEN <<>>
    ELSE RenderNodes(line, n - 1, data)
            \o (IF line[n].kind = "text" THEN <<line[n].arg>> ELSE data[line[n].arg])

\* the first node of a line that cannot be evaluated, 0 when all can
FirstBad(line, data) ==
    IF \A n \in 1..Len(line) : NodeOk(line[n], data) THEN 0
    ELSE CHOOSE n \in 1..Len(line) :
            /\ ~NodeOk(line[n], data)
            /\ \A m \in 1..(n - 1) : NodeOk(line[m], data)

\* Template.Execute: text goes to the file node by node, line after line,
\* and the first action that cannot be evaluated ends the execution with an
\* error, the text before it written
Execute(tmpl, data) ==
    LET failing == {k \in 1..Len(tmpl) : FirstBad(tmpl[k], data) # 0}
    IN  IF failing = {}
        THEN [out |-> [k \in 1..Len(tmpl) |-> RenderNodes(tmpl[k], Len(tmpl[k]), data)],
              err |-> FALSE]
        ELSE LET last == CHOOSE k \in failing : \A j \in failing : k <= j
             IN  [out |-> [k \in 1..last |->
                            IF k < last
                            THEN RenderNodes(tmpl[k], Len(tmpl[k]), data)
                            ELSE RenderNodes(tmpl[k], FirstBad(tmpl[k], data) - 1, data)],
                  err |-> TRUE]

----------------------------------------------------------------------------
(* pkg/generator: GenerateTaskfile, GenerateConnectionProfiles *)

\* the steps of a generator that touch the file system, in order
StepsOf_mkdirLate(gen) ==
    IF gen = "GenerateConnectionProfiles"
    THEN <<"create", "mkdir", "execute", "close">>
    ELSE <<"create", "execute", "close">>

StepsOf(gen) ==
    IF gen = "GenerateConnectionProfiles"
    THEN <<"mkdir", "create", "execute", "close">>
    ELSE <<"create", "execute", "close">>

\* the step after step pc
After(gen, pc) ==
    LET steps == StepsOf(gen)
        k == CHOOSE j \in 1..Len(steps) : steps[j] = pc
    IN  IF k = Len(steps) THEN "done" ELSE steps[k + 1]

\* what an output path holds before the first call, when it holds anything:
\* fewer lines than any generator writes, or more
OldShort == << <<"old">> >>
OldLong == [k \in 1..32 |-> <<"old line">>]
OldAt(path) == IF path = PathMid THEN OldShort ELSE OldLong

\* the documents whose extraction result the generators are called with;
\* the second lacks a service, and its result is the nil record
GenDocs ==
    {MkDoc(<<StandardCustomer>>, <<StandardInternal>>, {}),
     MkDoc(<<StandardCustomer>>, <<>>, {})}

DirTestdata == <<"testdata">>
DirProfiles == <<"testdata", "connection-profiles">>

InitGen ==
    /\ dockerCompose \in GenDocs
    /\ xpc = "extracted"
    /\ result = ExtractCredentials(dockerCompose)
    /\ dirs \in {{}, {DirTestdata}, {DirTestdata, DirProfiles}}
    /\ ro \in {{}, {<<>>}, {DirTestdata} \cap dirs}
    /\ \E P \in SUBSET {q \in Paths : IsDir(dirs, Dir(q))} :
            files = [q \in P |-> OldAt(q)]
    /\ now = 0
    /\ calls = <<>>
    /\ dirs0 = dirs
    /\ files0 = files
    /\ Idle

InFlight(c) == c.pc # "done"

\* a generator is entered; calls in flight have distinct output paths
Invoke(gen, path) ==
    /\ Len(calls) < MaxCalls
    /\ \A i \in 1..Len(calls) : InFlight(calls[i]) => calls[i].path # path
    /\ calls' = Append(calls,
            [gen |-> gen, path |-> path, pc |-> StepsOf(gen)[1], err |-> "",
             ts |-> 0,
             hadDir |-> IsDir(dirs, Dir(path)),
             canMkdir |-> MkdirAllOk(dirs, files, Dir(path)),
             before |-> FileAt(files, path),
             after |-> <<>>])
    /\ UNCHANGED <<dirs, ro, files, now, dirs0, files0>>

\* the caller invokes a generator
Start(gen, path) ==
    /\ Invoke(gen, path)
    /\ UNCHANGED xvars
    /\ UNCHANGED ovars

\* os.MkdirAll(filepath.Dir(outputPath), 0755)
MkdirAllStep(i) ==
    /\ calls[i].pc = "mkdir"
    /\ LET c == calls[i]
       IN  IF MkdirAllOk(dirs, files, Dir(c.path))
           THEN /\ dirs' = MkdirAll(dirs, Dir(c.path))
                /\ calls' = [calls EXCEPT ![i].pc = After(c.gen, "mkdir")]
           ELSE /\ dirs' = dirs
                /\ calls' = [calls EXCEPT ![i].pc = "done",
                                          ![i].err = "failed to create directory",
                                          ![i].after = FileAt(files, c.path)]
    /\ UNCHANGED <<ro, files, now, dirs0, files0>>
    /\ UNCHANGED xvars
    /\ UNCHANGED ovars

\* os.Create(outputPath)
CreateStep(i) ==
    /\ calls[i].pc = "create"
    /\ LET c == calls[i]
       IN  IF CanCreate(dirs, files, c.path)
           THEN /\ files' = PutFile(files, c.path,
                        CreateContent(IF c.path \in DOMAIN files
                                      THEN files[c.path] ELSE <<>>))
                /\ calls' = [calls EXCEPT ![i].pc = After(c.gen, "create")]
           ELSE /\ files' = files
                /\ calls' = [calls EXCEPT ![i].pc = "done",
                                          ![i].err = "failed to create file",
                                          ![i].after = FileAt(files, c.path)]
    /\ UNCHANGED <<dirs, ro, now, dirs0, files0>>
    /\ UNCHANGED xvars
    /\ UNCHANGED ovars

\* t.Execute(file, data) with Timestamp: time.Now()
ExecuteStep(i) ==
    /\ calls[i].pc = "execute"
    /\ LET c == calls[i]
           r == Execute(TemplateOf(c.gen), Data(result.creds, now))
       IN  /\ files' = PutFile(files, c.path, WriteAt0(files[c.path], r.out))
           /\ calls' = [calls EXCEPT ![i].pc = After(c.gen, "execute"),
                                     ![i].ts = now,
                                     ![i].err = IF r.err THEN "template" ELSE ""]
    /\ UNCHANGED <<dirs, ro, now, dirs0, files0>>
    /\ UNCHANGED xvars
    /\ UNCHANGED ovars

\* defer file.Close(), and the return to the caller
CloseStep(i) ==
    /\ calls[i].pc = "close"
    /\ calls' = [calls EXCEPT ![i].pc = After(calls[i].gen, "close"),
                              ![i].after = FileAt(files, calls[i].path)]
    /\ UNCHANGED <<dirs, ro, files, now, dirs0, files0>>
    /\ UNCHANGED xvars
    /\ UNCHANGED ovars

\* a second passes
Tick ==
    /\ now < MaxNow
    /\ now' = now + 1
    /\ UNCHANGED <<dirs, ro, files, calls, dirs0, files0>>
    /\ UNCHANGED xvars
    /\ UNCHANGED ovars

NextGen ==
    \/ \E gen \in Generators, path \in Paths : Start(gen, path)
    \/ \E i \in 1..Len(calls) : MkdirAllStep(i)
    \/ \E i \in 1..Len(calls) : CreateStep(i)
    \/ \E i \in 1..Len(calls) : ExecuteStep(i)
    \/ \E i \in 1..Len(calls) : CloseStep(i)
    \/ Tick

SpecGen == InitGen /\ [][NextGen]_vars

----------------------------------------------------------------------------
(* Claims about the generators *)

Done(i) == calls[i].pc = "done"

Succeeded(i) == Done(i) /\ calls[i].err = ""

\* the line of a generator's output that carries the time of generation
TimestampLine(gen) == IF gen = "GenerateTaskfile" THEN 3 ELSE 4

\* contents a and b are the same but for line k
SameButLine(a, b, k) ==
    /\ Len(a) = Len(b)
    /\ \A n \in 1..Len(a) : n # k => a[n] = b[n]

\* what a generator writes for the credentials of this run at time t
Rendered(gen, t) == Execute(TemplateOf(gen), Data(result.creds, t)).out

\* C7: a generator invoked twice with the same Credentials and output path
\* leaves a file identical to the one its first call left, but for the line
\* with the generation timestamp; the Credentials determine every other
\* line, whatever the path and whatever the file held before.
C7_Idempotent ==
    \A i \in 1..Len(calls) :
        Succeeded(i) =>
            /\ Len(calls[i].after) = 1
            /\ SameButLine(calls[i].after[1], Rendered(calls[i].gen, 0),
                           TimestampLine(calls[i].gen))
            /\ \A j \in 1..Len(calls) :
                  (Succeeded(j) /\ calls[j].gen = calls[i].gen) =>
                      SameButLine(calls[i].after[1], calls[j].after[1],
                                  TimestampLine(calls[i].gen))

C7_Witness ==
    /\ Len(calls) = 2
    /\ Succeeded(1)
    /\ Succeeded(2)
    /\ calls[1].gen = calls[2].gen
    /\ calls[1].path = calls[2].path
    /\ calls[1].ts # calls[2].ts
    /\ calls[1].before # <<>>
    /\ calls[1].after # calls[2].after
    /\ files[calls[2].path] = calls[2].after[1]

\* the error a generator called alone before any other call returns
SoloErr(gen, path) ==
    LET mk == \E k \in 1..Len(StepsOf(gen)) : StepsOf(gen)[k] = "mkdir"
        ds == IF mk /\ MkdirAllOk(dirs0, files0, Dir(path))
              THEN MkdirAll(dirs0, Dir(path)) ELSE dirs0
    IN  IF mk /\ ~MkdirAllOk(dirs0, files0, Dir(path))
        THEN "failed to create directory"
        ELSE IF ~CanCreate(ds, files0, path) THEN "failed to create file"
        ELSE IF Execute(TemplateOf(gen), Data(result.creds, 0)).err THEN "template"
        ELSE ""

\* the output file that call leaves, when its template is executed at time t
SoloFile(gen, path, t) ==
    IF SoloErr(gen, path) \in {"failed to create directory", "failed to create file"}
    THEN FileAt(files0, path)
    ELSE <<Rendered(gen, t)>>

\* C8: generators called with distinct output paths, in any order or
\* interleaved, each return what they return when called alone and leave
\* their output file as they leave it when called alone, and files that are
\* no call's output are not touched.
C8_Independent ==
    /\ \A i \in 1..Len(calls) :
        (/\ Done(i)
         /\ \A j \in 1..Len(calls) : j # i => calls[j].path # calls[i].path) =>
            /\ calls[i].err = SoloErr(calls[i].gen, calls[i].path)
            /\ calls[i].after = SoloFile(calls[i].gen, calls[i].path, calls[i].ts)
    /\ \A q \in Paths :
        (\A j \in 1..Len(calls) : calls[j].path # q) =>
            FileAt(files, q) = FileAt(files0, q)

\* C9: GenerateConnectionProfiles makes the missing parent directories
\* before it creates the file: called with a record and a path whose parent
\* does not exist it succeeds and leaves the rendered file, unless the
\* directories cannot be made; then it returns the directory error, and the
\* output file is neither created nor truncated.
C9_ProfilesMkdir ==
    \A i \in 1..Len(calls) :
        (Done(i) /\ calls[i].gen = "GenerateConnectionProfiles") =>
            /\ (~calls[i].hadDir /\ calls[i].canMkdir /\ result.creds # <<>>) =>
                    /\ calls[i].err = ""
                    /\ Dir(calls[i].path) \in dirs
                    /\ calls[i].after = <<Rendered(calls[i].gen, calls[i].ts)>>
            /\ ~calls[i].canMkdir <=> calls[i].err = "failed to create directory"
            /\ calls[i].err = "failed to create directory" =>
                    /\ calls[i].after = calls[i].before
                    /\ FileAt(files, calls[i].path) = calls[i].before
                        \/ \E j \in 1..Len(calls) :
                              j # i /\ calls[j].path = calls[i].path

C9_Witness ==
    \E i \in 1..Len(calls) :
        /\ Done(i)
        /\ calls[i].gen = "GenerateConnectionProfiles"
        /\ calls[i].path = PathDeep
        /\ ~calls[i].hadDir
        /\ dirs0 = {}
        /\ calls[i].err = ""
        /\ DirProfiles \in dirs
        /\ files[PathDeep] = Rendered(calls[i].gen, calls[i].ts)

\* a call that ended with the directory error and left no file
C9_ErrorReached ==
    \E i \in 1..Len(calls) :
        /\ Done(i)
        /\ calls[i].gen = "GenerateConnectionProfiles"
        /\ calls[i].err = "failed to create directory"
        /\ calls[i].path \notin DOMAIN files

\* C10: GenerateTaskfile, called with a valid record and an output path
\* whose parent directory does not exist yet, makes that directory and
\* writes the artifact.
C10_TaskfileMkdir ==
    \A i \in 1..Len(calls) :
        (/\ Done(i)
         /\ calls[i].gen = "GenerateTaskfile"
         /\ ~calls[i].hadDir
         /\ calls[i].canMkdir
         /\ result.creds # <<>>) =>
            /\ calls[i].err = ""
            /\ Dir(calls[i].path) \in dirs
            /\ calls[i].after = <<Rendered(calls[i].gen, calls[i].ts)>>

\* C11: a successful generator call overwrites the file at the output path:
\* when it returns, the file holds exactly the template rendered for the
\* record and the time of the call, and nothing of what it held before,
\* whether that was shorter or longer than the rendered text.
C11_Overwrite ==
    \A i \in 1..Len(calls) :
        Succeeded(i) =>
            calls[i].after = <<Rendered(calls[i].gen, calls[i].ts)>>

C11_Witness ==
    \E i, j \in 1..Len(calls) :
        /\ Succeeded(i)
        /\ calls[i].before = <<OldLong>>
        /\ Len(OldLong) > Len(calls[i].after[1])
        /\ files[calls[i].path] = Rendered(calls[i].gen, calls[i].ts)
        /\ Succeeded(j)
        /\ calls[j].before = <<OldShort>>
        /\ files[calls[j].path] = Rendered(calls[j].gen, calls[j].ts)

C12_PartialFile ==
    \E i \in 1..Len(calls) :
        /\ Done(i)
        /\ calls[i].err = "template"
        /\ calls[i].before = <<>>
        /\ calls[i].after # <<>>
        /\ Len(calls[i].after[1]) < Len(TemplateOf(calls[i].gen))

----------------------------------------------------------------------------
(* The generated artifacts read back: both generators run once on the    *)
(* record extracted from a document with both services                     *)

\* environment values: plain ones, one with a double quote, one that ends
\* in a backslash
RoundValues == {<<"a">>, <<"p", "\"", "w">>, <<"p", "\\">>}

RoundEnvs == {<<>>} \cup [EnvKeys -> RoundValues]

RoundPorts ==
    {<<>>, <<Entry5555to5432>>, <<Entry6666to5432>>, <<Entry5432>>,
     <<EntryColon5432>>, <<EntryHostBinding>>}

RoundServices == {Service(e, p) : e \in RoundEnvs, p \in RoundPorts}

\* documents with both services: one ranges over RoundServices while the
\* other is a standard one
RoundDocs ==
    {MkDoc(<<c>>, <<StandardInternal>>, {}) : c \in RoundServices}
        \cup {MkDoc(<<StandardCustomer>>, <<i>>, {}) : i \in RoundServices}

\* the output path each generator is called with
OutputOf(gen) == IF gen = "GenerateTaskfile" THEN PathMid ELSE PathDeep

InitRound ==
    /\ dockerCompose \in RoundDocs
    /\ xpc = "extracted"
    /\ result = ExtractCredentials(dockerCompose)
    /\ dirs = {DirTestdata}
    /\ ro = {}
    /\ files \in {<<>>, [q \in {PathMid} |-> OldShort]}
    /\ now = 0
    /\ calls = <<>>
    /\ dirs0 = dirs
    /\ files0 = files
    /\ Idle

\* each generator is called once, with its own output path
StartOnce(gen) ==
    /\ \A i \in 1..Len(calls) : calls[i].gen # gen
    /\ Start(gen, OutputOf(gen))

NextRound ==
    \/ \E gen \in Generators : StartOnce(gen)
    \/ \E i \in 1..Len(calls) : MkdirAllStep(i)
    \/ \E i \in 1..Len(calls) : CreateStep(i)
    \/ \E i \in 1..Len(calls) : ExecuteStep(i)
    \/ \E i \in 1..Len(calls) : CloseStep(i)

SpecRound == InitRound /\ [][NextRound]_vars

\* the comments the profile template puts after a value
TrailingComments ==
    {"  # From docker-compose.yml db-test-customer port",
     "  # From docker-compose.yml POSTGRES_USER",
     "  # From docker-compose.yml POSTGRES_PASSWORD",
     "  # From docker-compose.yml POSTGRES_DB"}

\* what may follow a scalar on its line: nothing, or a comment
IsTrailer(rest) == rest = <<>> \/ (Len(rest) = 1 /\ rest[1] \in TrailingComments)

Unreadable == [ok |-> FALSE, val |-> <<>>]

\* A YAML double-quoted scalar, read from position pos of a line (the
\* opening quote is the end of the token before pos): a backslash escapes
\* the character after it, the first quote that is not escaped ends the
\* scalar, and only a comment may follow it.
RECURSIVE ReadQuoted(_, _, _)
ReadQuoted(line, pos, acc) ==
    IF pos > Len(line) THEN Unreadable
    ELSE IF line[pos] = "\\"
    THEN IF pos + 1 > Len(line) THEN Unreadable
         ELSE ReadQuoted(line, pos + 2,
                Append(acc, IF line[pos + 1] \in {"\"", "\\"}
                            THEN line[pos + 1] ELSE "escape"))
    ELSE IF line[pos] = "\""
    THEN IF IsTrailer(SubSeq(line, pos + 1, Len(line)))
         THEN [ok |-> TRUE, val |-> acc]
         ELSE Unreadable
    ELSE ReadQuoted(line, pos + 1, Append(acc, line[pos]))

Digits == {"0", "1", "2", "3", "4", "5", "6", "7", "8", "9"}

DigitValue(c) ==
    CASE c = "0" -> 0 [] c = "1" -> 1 [] c = "2" -> 2 [] c = "3" -> 3
      [] c = "4" -> 4 [] c = "5" -> 5 [] c = "6" -> 6 [] c = "7" -> 7
      [] c = "8" -> 8 [] c = "9" -> 9

IsNumber(s) == s # <<>> /\ \A k \in 1..Len(s) : s[k] \in Digits

\* the number a string of decimal digits denotes
RECURSIVE Atoi(_)
Atoi(s) ==
    IF s = <<>> THEN 0
    ELSE 10 * Atoi(SubSeq(s, 1, Len(s) - 1)) + DigitValue(s[Len(s)])

\* A YAML plain scalar, read from position 2 of a line up to the comment:
\* nothing is null, decimal digits are an integer, other text is a string.
ReadPlain(line) ==
    LET stop == IF \E k \in 2..Len(line) : line[k] \in TrailingComments
                THEN CHOOSE k \in 2..Len(line) : line[k] \in TrailingComments
                ELSE Len(line) + 1
        text == SubSeq(line, 2, stop - 1)
    IN  IF text = <<>> THEN [kind |-> "null", num |-> 0, str |-> <<>>]
        ELSE IF IsNumber(text) THEN [kind |-> "int", num |-> Atoi(text), str |-> <<>>]
        ELSE [kind |-> "str", num |-> 0, str |-> text]

\* the line of a content that starts with the text key
HasKey(content, key) ==
    \E k \in 1..Len(content) : content[k] # <<>> /\ content[k][1] = key

LineOf(content, key) ==
    content[CHOOSE k \in 1..Len(content) : content[k] # <<>> /\ content[k][1] = key]

\* the variables of the task definition: the text that opens each, and the
\* field it is rendered from
TaskVars ==
    {<<"  TEST_CUSTOMER_HOST: \"", "CustomerHost">>,
     <<"  TEST_CUSTOMER_PORT: \"", "CustomerPort">>,
     <<"  TEST_CUSTOMER_USER: \"", "CustomerUser">>,
     <<"  TEST_CUSTOMER_PASSWORD: \"", "CustomerPassword">>,
     <<"  TEST_CUSTOMER_DB: \"", "CustomerDB">>,
     <<"  TEST_INTERNAL_HOST: \"", "InternalHost">>,
     <<"  TEST_INTERNAL_PORT: \"", "InternalPort">>,
     <<"  TEST_INTERNAL_USER: \"", "InternalUser">>,
     <<"  TEST_INTERNAL_PASSWORD: \"", "InternalPassword">>,
     <<"  TEST_INTERNAL_DB: \"", "InternalDB">>}

\* the quoted values of the profile, likewise
ProfileStrings ==
    {<<"    host: \"", "CustomerHost">>,
     <<"    user: \"", "CustomerUser">>,
     <<"    password: \"", "CustomerPassword">>,
     <<"    database: \"", "CustomerDB">>}

PortKey == "    port: "

\* every pair of keyed reads back as the value of its field
StringsReadBack(content, keyed, creds) ==
    \A kv \in keyed :
        /\ HasKey(content, kv[1])
        /\ ReadQuoted(LineOf(content, kv[1]), 2, <<>>)
                = [ok |-> TRUE, val |-> creds[kv[2]]]

\* the port of the profile reads back as the number CustomerPort spells
PortReadsBack(content, creds) ==
    /\ HasKey(content, PortKey)
    /\ IsNumber(creds.CustomerPort)
    /\ ReadPlain(LineOf(content, PortKey))
            = [kind |-> "int", num |-> Atoi(creds.CustomerPort), str |-> <<>>]

ReadsBack(gen, content, creds) ==
    IF gen = "GenerateTaskfile"
    THEN StringsReadBack(content, TaskVars, creds)
    ELSE StringsReadBack(content, ProfileStrings, creds)
            /\ PortReadsBack(content, creds)

\* C13: for the record extracted from a document with both services, each
\* generator succeeds, and its output reads back as the record: the ten
\* variables of the task definition and the profile's host, user, password
\* and database equal the fields character for character, and the profile's
\* unquoted port is the number the port field spells.
C13_RoundTrip ==
    \A i \in 1..Len(calls) :
        Done(i) =>
            /\ Succeeded(i)
            /\ ReadsBack(calls[i].gen, calls[i].after[1], result.creds[1])

\* the values and the ports that the quoting of the templates carries
\* unchanged: no quote, no backslash, and decimal digits for the port
PlainRecord(creds) ==
    /\ \A f \in CredFields :
          \A k \in 1..Len(creds[f]) : creds[f][k] \notin {"\"", "\\"}
    /\ IsNumber(creds.CustomerPort)

\* records of plain values do read back
RoundTripOfPlain ==
    \A i \in 1..Len(calls) :
        (Done(i) /\ PlainRecord(result.creds[1])) =>
            /\ Succeeded(i)
            /\ ReadsBack(calls[i].gen, calls[i].after[1], result.creds[1])

RoundTripOfPlainReached ==
    /\ Len(calls) = 2
    /\ Done(1)
    /\ Done(2)
    /\ PlainRecord(result.creds[1])
    /\ result.creds[1].CustomerPassword # <<>>

\* the lines of the profile that are comments, by the text they start with
ProfileComments ==
    {"# Connection Profiles for Automated Testing",
     "# THIS FILE IS AUTO-GENERATED from docker-compose.yml",
     "# DO NOT EDIT MANUALLY - Run 'go generate ./...' or your dev tool to regenerate",
     "# Generated on: ",
     "# ---------------------------------------------------------------------------",
     "  # Automated testing environment (references docker-compose.yml)"}

IsComment(line) == line # <<>> /\ line[1] \in ProfileComments

\* the text each line that is not a comment starts with
RECURSIVE KeyTexts(_)
KeyTexts(content) ==
    IF content = <<>> THEN <<>>
    ELSE (IF IsComment(Head(content)) THEN <<>>
          ELSE IF Head(content) = <<>> THEN <<"">> ELSE <<Head(content)[1]>>)
            \o KeyTexts(Tail(content))

\* the mapping "connection_profiles", its one entry "test", and the eight
\* keys of that entry, two of them with their fixed values
ProfileShape ==
    <<"connection_profiles:",
      "  test:",
      "    type: \"postgresql\"",
      "    host: \"",
      "    port: ",
      "    user: \"",
      "    password: \"",
      "    database: \"",
      "    sslmode: \"disable\"",
      "    target_schema: \"daana_dw\"">>

CustomerFields ==
    {"CustomerHost", "CustomerPort", "CustomerUser", "CustomerPassword", "CustomerDB"}

\* the records that differ from creds in Internal* fields only
InternalVariants(creds) ==
    {[f \in CredFields |-> IF f \in S THEN <<"z">> ELSE creds[f]] :
        S \in SUBSET (CredFields \ CustomerFields)}

\* the text of a line between the text it starts with and what ends it
ValueIs(line, val) ==
    /\ Len(line) >= 1 + Len(val)
    /\ SubSeq(line, 2, 1 + Len(val)) = val
    /\ LET rest == SubSeq(line, 2 + Len(val), Len(line))
       IN  IsTrailer(rest) \/ (rest # <<>> /\ rest[1] = "\"" /\ IsTrailer(Tail(rest)))

----------------------------------------------------------------------------
(* scripts/wait-for-healthy.sh.  The container runtime answers every      *)
(* command; the container's health and readiness change on their own.      *)

\* largest timeout argument of a run
MaxTimeout == 5

\* changes of health or readiness during one run
MaxChanges == 3

\* TIMEOUT="${2:-90}"
DefaultTimeout == 90

\* the exit status of timeout(1) when the time is up
TimedOut == 124

\* the exit status of a job ended by kill
Terminated == 143

Names == {"", "pg-test-customer"}

\* the arguments: none, a name, a name and a timeout in seconds
Argvs ==
    {<<>>} \cup {<<n>> : n \in Names}
        \cup {<<n, t>> : n \in Names, t \in 0..MaxTimeout}

\* timeout(1) is on the PATH as timeout (GNU or FreeBSD), as gtimeout
\* (coreutils installed beside the BSD tools), or not at all; seq(1) is the
\* GNU or the BSD one, the BSD one where timeout is gtimeout
Tools ==
    {t \in [timeout : {"timeout", "gtimeout", "none"}, seq : {"gnu", "bsd"}] :
        t.timeout = "gtimeout" => t.seq = "bsd"}

Containers ==
    {[exists |-> FALSE, hasHealth |-> FALSE, health |-> "none", ready |-> FALSE]}
        \cup {[exists |-> TRUE, hasHealth |-> TRUE, health |-> h, ready |-> FALSE] :
                h \in {"starting", "healthy", "unhealthy"}}
        \cup {[exists |-> TRUE, hasHealth |-> FALSE, health |-> "none", ready |-> r] :
                r \in BOOLEAN}

\* seq first last: GNU seq prints nothing when first is larger than last,
\* BSD seq counts down
SeqOut(kind, first, last) ==
    IF first <= last THEN [k \in 1..(last - first + 1) |-> first + k - 1]
    ELSE IF kind = "bsd" THEN [k \in 1..(first - last + 1) |-> first - k + 1]
    ELSE <<>>

libvars == <<xvars, gvars, pvars, vvars>>

InitWait ==
    /\ argv \in Argvs
    /\ tools \in Tools
    /\ container \in Containers
    /\ wpc = "tools"
    /\ sh = [CONTAINER_NAME |-> "", TIMEOUT |-> 0, todo |-> <<>>, status |-> "",
             EXIT_CODE |-> 0]
    /\ bg = [state |-> "none", elapsed |-> 0, status |-> 0]
    /\ fifo = <<>>
    /\ exitCode = <<>>
    /\ seen = [contacted |-> FALSE, attempts |-> 0, readyAt |-> FALSE,
               start |-> container.health,
               everHealthy |-> container.health = "healthy",
               becameHealthy |-> FALSE, leftHealthy |-> FALSE, lost |-> FALSE,
               unhealthyRead |-> FALSE, changes |-> 0]
    /\ dockerCompose = MkDoc(<<>>, <<>>, {})
    /\ xpc = "parsed"
    /\ result = NoResult
    /\ NoGenerators
    /\ NoPipeline
    /\ NoVerify

\* exit n
Exit(n) ==
    /\ wpc' = "exited"
    /\ exitCode' = <<n>>

\* lines 17-26: TIMEOUT_CMD
CheckTools ==
    /\ wpc = "tools"
    /\ IF tools.timeout = "none"
       THEN Exit(2)
       ELSE wpc' = "args" /\ exitCode' = exitCode
    /\ UNCHANGED <<argv, tools, container, sh, bg, fifo, seen>>
    /\ UNCHANGED libvars

\* lines 28-36: under set -u the expansion of an unset $1 ends the shell
\* with status 1; an empty name is refused with status 2
ReadArgs ==
    /\ wpc = "args"
    /\ IF Len(argv) = 0
       THEN Exit(1) /\ sh' = sh
       ELSE /\ sh' = [sh EXCEPT !.CONTAINER_NAME = argv[1],
                                !.TIMEOUT = IF Len(argv) >= 2 THEN argv[2]
                                            ELSE DefaultTimeout]
            /\ IF argv[1] = ""
               THEN Exit(2)
               ELSE wpc' = "exists" /\ exitCode' = exitCode
    /\ UNCHANGED <<argv, tools, container, bg, fifo, seen>>
    /\ UNCHANGED libvars

\* lines 39-42: docker ps -a | grep
CheckExists ==
    /\ wpc = "exists"
    /\ seen' = [seen EXCEPT !.contacted = TRUE]
    /\ IF container.exists
       THEN wpc' = "hascheck" /\ exitCode' = exitCode
       ELSE Exit(1)
    /\ UNCHANGED <<argv, tools, container, sh, bg, fifo>>
    /\ UNCHANGED libvars

\* lines 45-54: HAS_HEALTHCHECK, and without a health check PG_USER,
\* RETRIES=$((TIMEOUT / 2)) and the words of $(seq 1 $RETRIES)
CheckHealthcheck ==
    /\ wpc = "hascheck"
    /\ IF container.hasHealth
       THEN wpc' = "inspect" /\ sh' = sh
       ELSE /\ wpc' = "fallback"
            /\ sh' = [sh EXCEPT !.todo = SeqOut(tools.seq, 1, sh.TIMEOUT \div 2)]
    /\ UNCHANGED <<argv, tools, container, bg, fifo, exitCode, seen>>
    /\ UNCHANGED libvars

\* lines 54-61: one turn of the loop: docker exec pg_isready, then sleep 2
PgIsReady ==
    /\ wpc = "fallback"
    /\ sh.todo # <<>>
    /\ seen' = [seen EXCEPT !.attempts = @ + 1,
                            !.readyAt = @ \/ container.ready]
    /\ IF container.ready
       THEN Exit(0) /\ sh' = sh
       ELSE /\ sh' = [sh EXCEPT !.todo = Tail(@)]
            /\ wpc' = wpc
            /\ exitCode' = exitCode
    /\ UNCHANGED <<argv, tools, container, bg, fifo>>
    /\ UNCHANGED libvars

\* lines 62-64: the words are used up
FallbackGiveUp ==
    /\ wpc = "fallback"
    /\ sh.todo = <<>>
    /\ Exit(1)
    /\ UNCHANGED <<argv, tools, container, sh, bg, fifo, seen>>
    /\ UNCHANGED libvars

\* lines 68-75: CURRENT_HEALTH
InspectHealth ==
    /\ wpc = "inspect"
    /\ IF container.health = "healthy"
       THEN Exit(0)
       ELSE wpc' = "events" /\ exitCode' = exitCode
    /\ UNCHANGED <<argv, tools, container, sh, bg, fifo, seen>>
    /\ UNCHANGED libvars

\* lines 78-90: CONTAINER_ID, mkfifo, trap, and the job started in the
\* background, which opens the FIFO before it runs timeout
StartEvents ==
    /\ wpc = "events"
    /\ bg' = [bg EXCEPT !.state = "spawned"]
    /\ wpc' = "read"
    /\ UNCHANGED <<argv, tools, container, sh, fifo, exitCode, seen>>
    /\ UNCHANGED libvars

\* the FIFO is open at both ends: timeout starts docker events, and the
\* runtime begins to send the events that happen from now on
Subscribe ==
    /\ bg.state = "spawned"
    /\ wpc = "read"
    /\ bg' = [bg EXCEPT !.state = "subscribed"]
    /\ UNCHANGED <<argv, tools, container, wpc, sh, fifo, exitCode, seen>>
    /\ UNCHANGED libvars

\* an unhealthy event, like any line that is not the healthy one, ends the wait
OnStatus_anyEnds(status) == "kill"

\* lines 94-101: where the loop goes after a line
OnStatus(status) == IF status = "healthy" THEN "kill" ELSE "read"

\* lines 93-101: read -r status
ReadStatus ==
    /\ wpc = "read"
    /\ fifo # <<>>
    /\ sh' = [sh EXCEPT !.status = Head(fifo)]
    /\ fifo' = Tail(fifo)
    /\ wpc' = OnStatus(Head(fifo))
    /\ seen' = [seen EXCEPT !.unhealthyRead = @ \/ Head(fifo) = "unhealthy"]
    /\ UNCHANGED <<argv, tools, container, bg, exitCode>>
    /\ UNCHANGED libvars

\* lines 95-98: kill $DOCKER_PID, wait $DOCKER_PID, exit 0
KillAndExit ==
    /\ wpc = "kill"
    /\ bg' = IF bg.state = "exited" THEN bg
             ELSE [bg EXCEPT !.state = "exited", !.status = Terminated]
    /\ Exit(0)
    /\ UNCHANGED <<argv, tools, container, sh, fifo, seen>>
    /\ UNCHANGED libvars

\* line 102: read fails at the end of the FIFO, when the job has exited
ReadEOF ==
    /\ wpc = "read"
    /\ fifo = <<>>
    /\ bg.state = "exited"
    /\ wpc' = "afterloop"
    /\ UNCHANGED <<argv, tools, container, sh, bg, fifo, exitCode, seen>>
    /\ UNCHANGED libvars

\* lines 105-110: wait $DOCKER_PID || EXIT_CODE=$?, exit 1
WaitAndExit ==
    /\ wpc = "afterloop"
    /\ sh' = [sh EXCEPT !.EXIT_CODE = bg.status]
    /\ Exit(1)
    /\ UNCHANGED <<argv, tools, container, bg, fifo, seen>>
    /\ UNCHANGED libvars

\* timeout "$TIMEOUT": a second of the job's time passes; a duration of 0
\* sets no limit
Second ==
    /\ bg.state = "subscribed"
    /\ sh.TIMEOUT > 0
    /\ bg.elapsed < sh.TIMEOUT
    /\ bg' = [bg EXCEPT !.elapsed = @ + 1]
    /\ UNCHANGED <<argv, tools, container, wpc, sh, fifo, exitCode, seen>>
    /\ UNCHANGED libvars

\* timeout "$TIMEOUT": the time is up, docker events is ended
Expire ==
    /\ bg.state = "subscribed"
    /\ sh.TIMEOUT > 0
    /\ bg.elapsed = sh.TIMEOUT
    /\ bg' = [bg EXCEPT !.state = "exited", !.status = TimedOut]
    /\ UNCHANGED <<argv, tools, container, wpc, sh, fifo, exitCode, seen>>
    /\ UNCHANGED libvars

\* the health check of the container changes its status; the runtime sends
\* the event to docker events if it runs
HealthChange(h) ==
    /\ wpc \notin {"idle", "exited"}
    /\ container.hasHealth
    /\ h # container.health
    /\ seen.changes < MaxChanges
    /\ container' = [container EXCEPT !.health = h]
    /\ fifo' = IF bg.state = "subscribed" THEN Append(fifo, h) ELSE fifo
    /\ seen' = [seen EXCEPT
            !.changes = @ + 1,
            !.everHealthy = @ \/ h = "healthy",
            !.becameHealthy = @ \/ (h = "healthy" /\ bg.state # "exited"),
            !.leftHealthy = @ \/ container.health = "healthy",
            !.lost = @ \/ (h = "healthy" /\ wpc \in {"events", "read"}
                                         /\ bg.state \in {"none", "spawned"})]
    /\ UNCHANGED <<argv, tools, wpc, sh, bg, exitCode>>
    /\ UNCHANGED libvars

\* the database of a container begins or ceases to accept connections
ReadyChange ==
    /\ wpc \notin {"idle", "exited"}
    /\ container.exists
    /\ ~container.hasHealth
    /\ seen.changes < MaxChanges
    /\ container' = [container EXCEPT !.ready = ~@]
    /\ seen' = [seen EXCEPT !.changes = @ + 1]
    /\ UNCHANGED <<argv, tools, wpc, sh, bg, fifo, exitCode>>
    /\ UNCHANGED libvars

\* the steps of the script
ScriptStep ==
    \/ CheckTools
    \/ ReadArgs
    \/ CheckExists
    \/ CheckHealthcheck
    \/ PgIsReady
    \/ FallbackGiveUp
    \/ InspectHealth
    \/ StartEvents
    \/ ReadStatus
    \/ KillAndExit
    \/ ReadEOF
    \/ WaitAndExit

\* the steps of the background job
JobStep ==
    \/ Subscribe
    \/ Second
    \/ Expire

NextWait ==
    \/ ScriptStep
    \/ JobStep
    \/ \E h \in {"healthy", "unhealthy"} : HealthChange(h)
    \/ ReadyChange

\* the shell and the job keep running; the container changes or does not
SpecWait ==
    /\ InitWait
    /\ [][NextWait]_vars
    /\ WF_vars(ScriptStep)
    /\ WF_vars(JobStep)

----------------------------------------------------------------------------
(* Claims about wait-for-healthy.sh *)

Exited == wpc = "exited"

\* the run reached the loop over pg_isready
OnFallback == Exited /\ seen.contacted /\ container.exists /\ ~container.hasHealth

\* the run started docker events
OnEvents == bg.state # "none"

\* C15: the script exits 0 only when the container was seen ready: healthy
\* at the inspection, a healthy event read, or pg_isready succeeding on
\* the fallback; it exits 1 when the container does not exist and when the
\* time runs out with no readiness seen; an unhealthy event read does not
\* end the wait.
C15_ExitCodes ==
    /\ exitCode \in {<<>>, <<0>>, <<1>>, <<2>>}
    /\ exitCode = <<0>> =>
            \/ container.hasHealth /\ seen.everHealthy
            \/ ~container.hasHealth /\ seen.readyAt /\ container.ready
    /\ (Exited /\ seen.contacted /\ ~container.exists) => exitCode = <<1>>
    /\ (Exited /\ bg.status = TimedOut /\ sh.status # "healthy") => exitCode = <<1>>
    /\ (OnFallback /\ ~seen.readyAt) => exitCode = <<1>>
    /\ wpc = "kill" => sh.status = "healthy"
    /\ (Exited /\ sh.status = "unhealthy") =>
            exitCode = <<1>> /\ bg.status = TimedOut

C15_Witness ==
    /\ exitCode = <<0>>
    /\ seen.unhealthyRead
    /\ sh.status = "healthy"
    /\ seen.start = "starting"

\* a run that ended at the timeout after it read an unhealthy event
C15_TimeoutReached ==
    /\ exitCode = <<1>>
    /\ sh.status = "unhealthy"
    /\ sh.EXIT_CODE = TimedOut

\* C16: called with no container name or with an empty one, the script
\* exits 2, and it has not called the container runtime.
C16_BadArguments ==
    (Exited /\ (argv = <<>> \/ argv[1] = "")) =>
        exitCode = <<2>> /\ ~seen.contacted

\* the empty name is refused with 2, and no run with a bad argument
\* reaches the runtime
EmptyNameExits2 ==
    /\ (Exited /\ argv # <<>> /\ argv[1] = "") => exitCode = <<2>>
    /\ (argv = <<>> \/ argv[1] = "") => ~seen.contacted

\* a run with no argument that ended with 1
NoArgumentExits1 ==
    /\ argv = <<>>
    /\ tools.timeout # "none"
    /\ exitCode = <<1>>

\* C17: a run that waits for events exits in the end, and when it has
\* exited, after a healthy event or the timeout, the job that ran docker
\* events has ended.
C17_EventPathExits ==
    /\ [](wpc = "read" => <>Exited)
    /\ []((Exited /\ OnEvents) => bg.state = "exited")

\* with a timeout that is not 0 it does
EventPathExitsWithTimeout ==
    /\ []((wpc = "read" /\ sh.TIMEOUT > 0) => <>Exited)
    /\ []((Exited /\ OnEvents) => bg.state = "exited")

\* C18: for a container with a health check that is not healthy when the
\* script, called with the container's name, starts: if the container
\* becomes healthy before the time is up,
\* and stays healthy, the script exits 0; this includes the time between
\* the inspection and the start of docker events.
C18_HealthyInTime ==
    (/\ Exited
     /\ seen.contacted
     /\ container.hasHealth
     /\ seen.start # "healthy"
     /\ seen.becameHealthy
     /\ ~seen.leftHealthy) =>
        exitCode = <<0>>

\* it does when the container becomes healthy before the inspection or
\* while docker events runs
HealthyInTimeSeen ==
    (/\ Exited
     /\ seen.contacted
     /\ container.hasHealth
     /\ seen.start # "healthy"
     /\ seen.becameHealthy
     /\ ~seen.leftHealthy
     /\ ~seen.lost) =>
        exitCode = <<0>>

\* a run that ended with 1 at the timeout, the container healthy all the
\* while since before docker events ran
HealthyLostReached ==
    /\ exitCode = <<1>>
    /\ seen.lost
    /\ ~seen.leftHealthy
    /\ container.health = "healthy"
    /\ sh.EXIT_CODE = TimedOut

\* C20: on the fallback the script makes at most TIMEOUT / 2 (rounded
\* down) attempts with pg_isready: it exits 0 at the first that succeeds
\* and 1 after TIMEOUT / 2 that fail; with a timeout of 0 or 1 it makes no
\* attempt and exits 1, whether the database is ready or not.
C20_FallbackAttempts ==
    /\ wpc = "fallback" => seen.attempts <= sh.TIMEOUT \div 2
    /\ OnFallback =>
        /\ seen.attempts <= sh.TIMEOUT \div 2
        /\ exitCode = <<0>> <=> seen.readyAt
        /\ exitCode = <<1>> => seen.attempts = sh.TIMEOUT \div 2
        /\ sh.TIMEOUT \in {0, 1} => seen.attempts = 0 /\ exitCode = <<1>>

\* with the seq of GNU it does
FallbackAttemptsGnu ==
    tools.seq = "gnu" =>
        /\ wpc = "fallback" => seen.attempts <= sh.TIMEOUT \div 2
        /\ OnFallback =>
            /\ seen.attempts <= sh.TIMEOUT \div 2
            /\ exitCode = <<0>> <=> seen.readyAt
            /\ exitCode = <<1>> => seen.attempts = sh.TIMEOUT \div 2
            /\ sh.TIMEOUT \in {0, 1} => seen.attempts = 0 /\ exitCode = <<1>>

\* a run with timeout 1 and the seq of BSD that made an attempt
AttemptWithTimeout1 ==
    /\ OnFallback
    /\ sh.TIMEOUT = 1
    /\ tools.seq = "bsd"
    /\ seen.attempts > 0

----------------------------------------------------------------------------
(* runGenerate: ParseDockerCompose, ExtractCredentials and the generators, *)
(* one after the other                                                     *)

\* what runGenerate calls, in the order of its text
Ops == <<"parse", "extract", "profiles", "goconstants", "taskfile">>

PathTop == <<"Taskfile.generated.yml">>

\* the generator an operation is, and the output path it is given
GenOf(op) ==
    IF op = "profiles" THEN "GenerateConnectionProfiles" ELSE "GenerateTaskfile"

PipePath(op) == IF op = "profiles" THEN PathDeep ELSE PathTop

NoDoc == MkDoc(<<>>, <<>>, {})

\* docker-compose.yml: a file that cannot be read, one that is not YAML,
\* or the text of a document
Inputs ==
    {[state |-> st, doc |-> NoDoc] : st \in {"unreadable", "malformed"}}
        \cup {[state |-> "ok", doc |-> d] :
                d \in GenDocs \cup {MkDoc(<<>>, <<StandardInternal>>, {}), NoDoc}}

InitPipe ==
    /\ input \in Inputs
    /\ ppc = "parse"
    /\ ptrace = <<>>
    /\ pout = <<>>
    /\ perr = <<>>
    /\ dockerCompose = NoDoc
    /\ xpc = "unparsed"
    /\ result = NoResult
    /\ dirs \in {{}, {DirTestdata, DirProfiles}}
    /\ ro \in {{}, {<<>>}}
    /\ \E P \in SUBSET {q \in {PathTop, PathDeep} : IsDir(dirs, Dir(q))} :
            files = [q \in P |-> OldShort]
    /\ now = 0
    /\ calls = <<>>
    /\ dirs0 = dirs
    /\ files0 = files
    /\ NoScript
    /\ NoVerify

\* an error is returned at once, whatever the operation
AfterOp_ignoreErrors(op, err) ==
    LET k == CHOOSE j \in 1..Len(Ops) : Ops[j] = op
    IN  IF k = Len(Ops) THEN "returned" ELSE Ops[k + 1]

\* if err != nil { return ... }: where runGenerate goes after an operation
AfterOp(op, err) ==
    LET k == CHOOSE j \in 1..Len(Ops) : Ops[j] = op
    IN  IF err # "" THEN "returned"
        ELSE IF k = Len(Ops) THEN "returned" ELSE Ops[k + 1]

\* the operation returned err to runGenerate
Returned(op, err) ==
    /\ pout' = Append(pout, err)
    /\ ppc' = AfterOp(op, err)
    /\ perr' = IF err # "" /\ AfterOp(op, err) = "returned" THEN <<op, err>> ELSE perr

\* docker.ParseDockerCompose("docker-compose.yml")
ParseDockerCompose ==
    /\ ppc = "parse"
    /\ ptrace' = Append(ptrace, "parse")
    /\ IF input.state = "ok"
       THEN /\ dockerCompose' = input.doc
            /\ xpc' = "parsed"
            /\ Returned("parse", "")
       ELSE /\ UNCHANGED <<dockerCompose, xpc>>
            /\ Returned("parse", IF input.state = "unreadable"
                                 THEN "failed to read docker-compose.yml"
                                 ELSE "failed to parse docker-compose.yml")
    /\ UNCHANGED <<result, input>>
    /\ UNCHANGED <<gvars, wvars, vvars>>

\* docker.ExtractCredentials(compose)
PipeExtract ==
    /\ ppc = "extract"
    /\ ptrace' = Append(ptrace, "extract")
    /\ result' = ExtractCredentials(dockerCompose)
    /\ xpc' = "extracted"
    /\ Returned("extract", IF ExtractCredentials(dockerCompose).err = <<>>
                           THEN "" ELSE "service not found")
    /\ UNCHANGED <<dockerCompose, input>>
    /\ UNCHANGED <<gvars, wvars, vvars>>

\* generator.GenerateConnectionProfiles(creds, ...), generator.GenerateTaskfile(creds, ...)
PipeCall(op) ==
    /\ ppc = op
    /\ ptrace' = Append(ptrace, op)
    /\ ppc' = "in generator"
    /\ Invoke(GenOf(op), PipePath(op))
    /\ UNCHANGED <<input, pout, perr>>
    /\ UNCHANGED <<xvars, wvars, vvars>>

\* the generator called last has returned
PipeReturn ==
    /\ ppc = "in generator"
    /\ Done(Len(calls))
    /\ Returned(ptrace[Len(ptrace)], calls[Len(calls)].err)
    /\ UNCHANGED <<input, ptrace>>
    /\ UNCHANGED <<xvars, gvars, wvars, vvars>>

\* generator.GenerateGoConstants(creds, ...): it returns nil or an error
PipeGoConstants ==
    /\ ppc = "goconstants"
    /\ ptrace' = Append(ptrace, "goconstants")
    /\ \E err \in {"", "failed to create file"} : Returned("goconstants", err)
    /\ UNCHANGED input
    /\ UNCHANGED <<xvars, gvars, wvars, vvars>>

NextPipe ==
    \/ ParseDockerCompose
    \/ PipeExtract
    \/ \E op \in {"profiles", "taskfile"} : PipeCall(op)
    \/ PipeReturn
    \/ PipeGoConstants
    \/ \E i \in 1..Len(calls) : MkdirAllStep(i)
    \/ \E i \in 1..Len(calls) : CreateStep(i)
    \/ \E i \in 1..Len(calls) : ExecuteStep(i)
    \/ \E i \in 1..Len(calls) : CloseStep(i)

SpecPipe == InitPipe /\ [][NextPipe]_vars

\* C19: runGenerate calls its operations in the order parse, extract,
\* profiles, constants, task definition, each at most once; every
\* operation but the last one called has returned nil, so no generator is
\* called unless the parse and the extraction succeeded and none after a
\* generator that failed; and runGenerate returns the error of the first
\* operation that fails, or nil when all five have succeeded.
C19_StrictSequence ==
    /\ Len(ptrace) <= Len(Ops)
    /\ ptrace = SubSeq(Ops, 1, Len(ptrace))
    /\ Len(pout) \in {Len(ptrace), Len(ptrace) - 1}
    /\ \A k \in 1..(Len(ptrace) - 1) : pout[k] = ""
    /\ Len(calls) = Cardinality({k \in 1..Len(ptrace) : ptrace[k] \in {"profiles", "taskfile"}})
    /\ \A i \in 1..Len(calls) :
          /\ \E k \in 1..Len(ptrace) :
                calls[i].gen = GenOf(ptrace[k]) /\ calls[i].path = PipePath(ptrace[k])
          /\ \A j \in 1..Len(calls) : calls[j].gen = calls[i].gen => j = i
          /\ (Done(i) /\ calls[i].err # "") => i = Len(calls) /\ ptrace[Len(ptrace)] # "goconstants"
    /\ calls # <<>> =>
          /\ input.state = "ok"
          /\ dockerCompose = input.doc
          /\ result = ExtractCredentials(input.doc)
          /\ result.creds # <<>>
    /\ ppc = "returned" =>
          /\ Len(pout) = Len(ptrace)
          /\ ptrace # <<>>
          /\ IF pout[Len(pout)] = ""
             THEN perr = <<>> /\ ptrace = Ops /\ \A i \in 1..Len(calls) : Succeeded(i)
             ELSE perr = <<ptrace[Len(ptrace)], pout[Len(pout)]>>

\* a run where the first generator succeeded and the last failed
C19_Witness ==
    /\ ppc = "returned"
    /\ ptrace = Ops
    /\ perr = <<"taskfile", "failed to create file">>
    /\ PathDeep \in DOMAIN files
    /\ PathTop \notin DOMAIN files

\* runs that ended at each of the operations, and one that ended with nil
C19_EveryEndReached(op) ==
    /\ ppc = "returned"
    /\ perr # <<>>
    /\ perr[1] = op

C19_NilReached ==
    /\ ppc = "returned"
    /\ perr = <<>>
    /\ files[PathTop] = Rendered("GenerateTaskfile", 0)

----------------------------------------------------------------------------
(* scripts/verify-database-health.sh: main and the check functions *)

\* verify_table_count ... "frontend" "12"
ExpectedTables == 12

\* a check of main: the function, what it is asked about, and for the
\* functions that count, the count they accept
Check(fn, arg, expected) == [fn |-> fn, arg |-> arg, expected |-> expected]

\* the checks of main, in the order of its text
Checks ==
    <<Check("container", "pg-test-customer", 0),
      Check("container", "pg-test-internal", 0),
      Check("test_db_connection", "Customer", 0),
      Check("test_db_connection", "Internal", 0),
      Check("verify_schema", "customer daana_dw", 1),
      Check("verify_schema", "customer daana_metadata", 1),
      Check("verify_schema", "customer stage", 1),
      Check("verify_schema", "internal frontend", 1),
      Check("verify_schema", "internal daana_metadata", 1),
      Check("verify_schema", "internal daana_stage", 1),
      Check("verify_schema", "internal daana_dw", 1),
      Check("verify_table_count", "internal frontend", ExpectedTables),
      Check("verify_table_exists", "frontend bim", 1),
      Check("verify_table_exists", "frontend src_to_target", 1),
      Check("verify_table_exists", "frontend master_process", 1)>>

\* what psql prints for a count, blanks removed: nothing when it fails,
\* digits, or other text
Counts ==
    {<<>>, <<"0">>, <<"1">>, <<"0", "1">>, <<"2">>, <<"1", "2">>, <<"x">>}

\* what a check observes: whether grep or pg_isready succeeded, or a count
Observations(check) ==
    IF check.fn \in {"container", "test_db_connection"} THEN BOOLEAN ELSE Counts

\* [ "$count" -eq expected ] after the empty count is made "0": a count
\* that is no integer makes the test fail
CountStatus(count, expected) ==
    LET c == IF count = <<>> THEN <<"0">> ELSE count
    IN  IF IsNumber(c) /\ Atoi(c) = expected THEN 0 ELSE 1

\* the return status of a check
Status(check, obs) ==
    IF check.fn \in {"container", "test_db_connection"}
    THEN IF obs THEN 0 ELSE 1
    ELSE CountStatus(obs, check.expected)

\* the status follows the check run last
Combine_last(status, rc) == IF rc # 0 THEN 1 ELSE 0

\* ... || overall_status=1
Combine(status, rc) == IF rc # 0 THEN 1 ELSE status

vlibvars == <<xvars, gvars, wvars, pvars>>

InitVerify ==
    /\ vpc = "setup"
    /\ overall_status = 0
    /\ vout = <<>>
    /\ vexit = <<>>
    /\ dockerCompose = MkDoc(<<>>, <<>>, {})
    /\ xpc = "parsed"
    /\ result = NoResult
    /\ NoGenerators
    /\ NoScript
    /\ NoPipeline

\* lines 119-165 and 288-291: the credentials are read with pipelines that
\* end in tr, whose status is 0; main is entered; local overall_status=0
EnterMain ==
    /\ vpc = "setup"
    /\ overall_status' = 0
    /\ vpc' = "checks"
    /\ UNCHANGED <<vout, vexit>>
    /\ UNCHANGED vlibvars

\* lines 293-331: the next check of main
RunCheck ==
    /\ vpc = "checks"
    /\ Len(vout) < Len(Checks)
    /\ \E obs \in Observations(Checks[Len(vout) + 1]) :
          LET rc == Status(Checks[Len(vout) + 1], obs)
          IN  /\ vout' = Append(vout, rc)
              /\ overall_status' = Combine(overall_status, rc)
    /\ UNCHANGED <<vpc, vexit>>
    /\ UNCHANGED vlibvars

\* lines 333-343: the summary and return $overall_status
Summary ==
    /\ vpc = "checks"
    /\ Len(vout) = Len(Checks)
    /\ vpc' = "summary"
    /\ UNCHANGED <<overall_status, vout, vexit>>
    /\ UNCHANGED vlibvars

\* line 347: main "$@" is the last command, its status the script's
ExitVerify ==
    /\ vpc = "summary"
    /\ vpc' = "exited"
    /\ vexit' = <<overall_status>>
    /\ UNCHANGED <<overall_status, vout>>
    /\ UNCHANGED vlibvars

NextVerify ==
    \/ EnterMain
    \/ RunCheck
    \/ Summary
    \/ ExitVerify

SpecVerify == InitVerify /\ [][NextVerify]_vars

\* the checks of one function
ChecksOf(fn) == {k \in 1..Len(Checks) : Checks[k].fn = fn}

\* a check run so far has failed
SomeFailed == \E k \in 1..Len(vout) : vout[k] # 0

\* C21: main runs its fifteen checks (two container checks, two connection
\* tests, seven schema checks, one table count, three table existence
\* checks) whatever the earlier ones returned; the status is 1 from the
\* first check that fails on and never 0 again; and the script exits with
\* 0 exactly when every check passed, with 1 otherwise.
C21_AllChecksRun ==
    /\ Cardinality(ChecksOf("container")) = 2
    /\ Cardinality(ChecksOf("test_db_connection")) = 2
    /\ Cardinality(ChecksOf("verify_schema")) = 7
    /\ Cardinality(ChecksOf("verify_table_count")) = 1
    /\ Cardinality(ChecksOf("verify_table_exists")) = 3
    /\ vpc \in {"summary", "exited"} => Len(vout) = Len(Checks)
    /\ vpc \in {"checks", "summary", "exited"} =>
            overall_status = IF SomeFailed THEN 1 ELSE 0
    /\ vexit # <<>> =>
            /\ vpc = "exited"
            /\ vexit = IF SomeFailed THEN <<1>> ELSE <<0>>

\* a run whose first check alone failed
C21_Witness ==
    /\ vexit = <<1>>
    /\ Len(vout) = Len(Checks)
    /\ vout[1] = 1
    /\ \A k \in 2..Len(vout) : vout[k] = 0

\* a run where every check passed
AllPassedReached ==
    /\ vexit = <<0>>
    /\ Len(vout) = Len(Checks)

\* The text of EntryHostBinding before its first colon: the host binding
HostBindingText == <<"1", "2", "7", ".", "0", ".", "0", ".", "1">>

\* p is the default, or a colon-free proper prefix of the first entry
DefaultOrPrefix(p, ports, defaultPort) ==
    \/ p = defaultPort
    \/ /\ ports # <<>>
       /\ Len(p) < Len(ports[1])
       /\ p = SubSeq(ports[1], 1, Len(p))
       /\ ~HasColon(p)

\* What the first entry decides when it is one of the two named forms
NamedForms(p, ports, defaultPort) ==
    /\ (ports # <<>> /\ ports[1] # <<>> /\ ports[1][1] = ":")
          => (p = <<>> /\ p # defaultPort)
    /\ (ports # <<>> /\ ports[1] = EntryHostBinding)
          => (p = HostBindingText /\ p # <<"5", "5", "5", "5">>)

C22_HostBindingReached ==
    /\ Extracted /\ HasBoth
    /\ Cust.Ports # <<>> /\ Cust.Ports[1] = EntryHostBinding
    /\ result.creds[1].CustomerPort = HostBindingText

====
